---- MODULE Spec2Model ----
(***************************************************************************)
(* Model of the oxidize.ai linear-algebra primitives:                      *)
(*   src/src/math/matrix.rs  (Matrix<T>: rows, cols, row-major data)       *)
(*   src/src/math/vector.rs  (Vector<T>: data)                             *)
(*                                                                         *)
(* A Matrix is the record [rows, cols, data]; data is a sequence, so the   *)
(* Rust entry data[k] is data[k + 1] here.  Matrix elements are integers   *)
(* (T = i32, arithmetic without overflow inside the bounds).  Every call   *)
(* returns an outcome: "ok" with a value, "err" (Result::Err),             *)
(* "none" (Option::None) or "panic" (an out-of-range Vec index or slice).  *)
(***************************************************************************)
EXTENDS Integers, Sequences, FiniteSets, TLC

VARIABLES
  m,      \* the matrix the client holds
  last,   \* the last Matrix call: [op, arg, out]
  a,      \* the vector the client holds (left operand, mutated in place)
  b,      \* the right-hand vector operand
  vlast   \* the last Vector call: [op, arg, out]

vars == <<m, last, a, b, vlast>>

\* ---------------------------------------------------------------- bounds
MaxDim == 3      \* rows and cols of the matrix runs (SpecMatrix)
SmallDim == 2    \* rows and cols of the matrices in the combined runs (Spec)
MaxVal == 1      \* element inputs are 0..MaxVal
MaxLen == 2      \* length of the input vectors

Val == 0..MaxVal

Min(x, y) == IF x <= y THEN x ELSE y

\* ---------------------------------------------------------------- outcomes
Ok(v) == [tag |-> "ok", val |-> v]
Err == [tag |-> "err", val |-> <<>>]
None == [tag |-> "none", val |-> <<>>]
Panic == [tag |-> "panic", val |-> <<>>]

IsOk(o) == o.tag = "ok"

\* ---------------------------------------------------------------- Matrix
Mat(r, c, d) == [rows |-> r, cols |-> c, data |-> d]

\* impl Index<(usize, usize)>: data[row * cols + col]; the Vec index panics
\* when it is not below data.len().
Offset(M, row, col) == row * M.cols + col
InData(M, row, col) == Offset(M, row, col) < Len(M.data)
Index(M, row, col) == M.data[Offset(M, row, col) + 1]

\* impl IndexMut<(usize, usize)>: the assignment matrix[(row, col)] = v.
IndexMut(M, row, col, v) == [M EXCEPT !.data[Offset(M, row, col) + 1] = v]

New(r, c) == Mat(r, c, <<>>)

Zeroes(r, c) == Mat(r, c, [i \in 1..(r * c) |-> 0])

Ones(r, c) == Mat(r, c, [i \in 1..(r * c) |-> 1])

RECURSIVE IdentityLoop(_, _, _)
IdentityLoop(M, i, size) ==
  IF i >= size THEN M ELSE IdentityLoop(IndexMut(M, i, i, 1), i + 1, size)

Identity(size) == IdentityLoop(Zeroes(size, size), 0, size)

FromVec(r, c, d) == IF Len(d) # r * c THEN Err ELSE Ok(Mat(r, c, d))

\* rows.into_iter().flat_map(|row| row.data).collect()
RECURSIVE FlatMap(_)
FlatMap(vs) == IF vs = <<>> THEN <<>> ELSE Head(vs) \o FlatMap(Tail(vs))

FromRows(rs) ==
  IF rs = <<>> THEN Err
  ELSE LET num_rows == Len(rs)
           num_cols == Len(rs[1])
       IN IF ~(\A i \in 1..Len(rs) : Len(rs[i]) = num_cols) THEN Err
          ELSE Ok(Mat(num_rows, num_cols, FlatMap(rs)))

\* A from_columns that stores each column contiguously (column-major) instead
\* of scattering it with the row stride.
RECURSIVE ScatterColumnMajor(_, _, _, _, _)
ScatterColumnMajor(d, column, col_idx, row_idx, num_cols) ==
  IF row_idx >= Len(column) THEN d
  ELSE ScatterColumnMajor([d EXCEPT ![col_idx * Len(column) + row_idx + 1] = column[row_idx + 1]],
                          column, col_idx, row_idx + 1, num_cols)

\* for (row_idx, value) in column: data[row_idx * num_cols + col_idx] = value
RECURSIVE ScatterColumn(_, _, _, _, _)
ScatterColumn(d, column, col_idx, row_idx, num_cols) ==
  IF row_idx >= Len(column) THEN d
  ELSE ScatterColumn([d EXCEPT ![row_idx * num_cols + col_idx + 1] = column[row_idx + 1]],
                     column, col_idx, row_idx + 1, num_cols)

\* for (col_idx, column) in cols
RECURSIVE ScatterAll(_, _, _, _)
ScatterAll(d, cs, col_idx, num_cols) ==
  IF col_idx >= Len(cs) THEN d
  ELSE ScatterAll(ScatterColumn(d, cs[col_idx + 1], col_idx, 0, num_cols),
                  cs, col_idx + 1, num_cols)

FromColumns(cs) ==
  IF cs = <<>> THEN Err
  ELSE LET num_rows == Len(cs[1])
           num_cols == Len(cs)
       IN IF ~(\A i \in 1..Len(cs) : Len(cs[i]) = num_rows) THEN Err
          ELSE Ok(Mat(num_rows, num_cols,
                      ScatterAll([i \in 1..(num_rows * num_cols) |-> 0], cs, 0, num_cols)))

\* get: None outside the dimensions, otherwise the indexed entry.
Get(M, row, col) ==
  IF row >= M.rows \/ col >= M.cols THEN None
  ELSE IF ~InData(M, row, col) THEN Panic
  ELSE Ok(Index(M, row, col))

\* set: the outcome, and the matrix after the call.
SetOut(M, row, col, v) ==
  IF row >= M.rows \/ col >= M.cols THEN Err
  ELSE IF ~InData(M, row, col) THEN Panic
  ELSE Ok(<<>>)

\* A set that skips the comparison with rows and cols and writes wherever the
\* offset falls inside data.
SetMatUnchecked(M, row, col, v) ==
  IF ~InData(M, row, col) THEN M ELSE IndexMut(M, row, col, v)

SetMat(M, row, col, v) ==
  IF row >= M.rows \/ col >= M.cols THEN M
  ELSE IF ~InData(M, row, col) THEN M
  ELSE IndexMut(M, row, col, v)

\* A row that strides by the number of rows instead of the number of columns.
RowStrideRows(M, index) ==
  IF index >= M.rows THEN None
  ELSE LET start == index * M.rows
           end == start + M.cols
       IN IF end > Len(M.data) THEN Panic
          ELSE Ok(SubSeq(M.data, start + 1, end))

\* row: the slice data[start..end] panics when end > data.len().
Row(M, index) ==
  IF index >= M.rows THEN None
  ELSE LET start == index * M.cols
           end == start + M.cols
       IN IF end > Len(M.data) THEN Panic
          ELSE Ok(SubSeq(M.data, start + 1, end))

Column(M, index) ==
  IF index >= M.cols THEN None
  ELSE IF \E row \in 0..(M.rows - 1) : ~InData(M, row, index) THEN Panic
  ELSE Ok([i \in 1..M.rows |-> Index(M, i - 1, index)])

\* transpose: for col in 0..cols { for row in 0..rows { push(self[(row, col)]) } }
\* the k-th push (k from 0) is made at col = k / rows, row = k % rows.
TransposeData(M) ==
  [p \in 1..(M.rows * M.cols) |->
     Index(M, (p - 1) % M.rows, (p - 1) \div M.rows)]

Transpose(M) ==
  IF \E col \in 0..(M.cols - 1), row \in 0..(M.rows - 1) : ~InData(M, row, col)
  THEN Panic
  ELSE Ok(Mat(M.cols, M.rows, TransposeData(M)))

Reshape(M, new_rows, new_cols) ==
  IF M.rows * M.cols # new_rows * new_cols THEN Err
  ELSE Ok(Mat(new_rows, new_cols, M.data))

\* self.data.iter().zip(rhs.data.iter()).map(f).collect(): zip stops at the
\* end of the shorter sequence.
RECURSIVE ZipAdd(_, _)
ZipAdd(x, y) ==
  IF x = <<>> \/ y = <<>> THEN <<>>
  ELSE <<Head(x) + Head(y)>> \o ZipAdd(Tail(x), Tail(y))

RECURSIVE ZipSub(_, _)
ZipSub(x, y) ==
  IF x = <<>> \/ y = <<>> THEN <<>>
  ELSE <<Head(x) - Head(y)>> \o ZipSub(Tail(x), Tail(y))

RECURSIVE ZipMul(_, _)
ZipMul(x, y) ==
  IF x = <<>> \/ y = <<>> THEN <<>>
  ELSE <<Head(x) * Head(y)>> \o ZipMul(Tail(x), Tail(y))

Add(M, rhs) ==
  IF M.rows # rhs.rows \/ M.cols # rhs.cols THEN Err
  ELSE Ok(Mat(M.rows, M.cols, ZipAdd(M.data, rhs.data)))

Sub(M, rhs) ==
  IF M.rows # rhs.rows \/ M.cols # rhs.cols THEN Err
  ELSE Ok(Mat(M.rows, M.cols, ZipSub(M.data, rhs.data)))

\* (0..self.cols).map(|k| self[(i, k)] * rhs[(k, j)]).fold(T::default(), |acc, x| acc + x)
RECURSIVE MulFold(_, _, _, _, _, _)
MulFold(M, rhs, i, j, k, acc) ==
  IF k >= M.cols THEN acc
  ELSE MulFold(M, rhs, i, j, k + 1, acc + Index(M, i, k) * Index(rhs, k, j))

Mul(M, rhs) ==
  IF M.cols # rhs.rows THEN Err
  ELSE IF \E i \in 0..(M.rows - 1), j \in 0..(rhs.cols - 1), k \in 0..(M.cols - 1) :
            ~InData(M, i, k) \/ ~InData(rhs, k, j)
  THEN Panic
  ELSE Ok(Mat(M.rows, rhs.cols,
              [p \in 1..(M.rows * rhs.cols) |->
                 MulFold(M, rhs, (p - 1) \div rhs.cols, (p - 1) % rhs.cols, 0, 0)]))

ScalarMultiply(M, scalar) ==
  Mat(M.rows, M.cols, [i \in 1..Len(M.data) |-> M.data[i] * scalar])

HadamardProduct(M, other) ==
  IF M.rows # other.rows \/ M.cols # other.cols THEN Err
  ELSE Ok(Mat(M.rows, M.cols, ZipMul(M.data, other.data)))

Dot(M, other) ==
  IF M.rows # other.rows \/ M.cols # other.cols THEN Err
  ELSE LET prods == ZipMul(M.data, other.data)
           sum[i \in 0..Len(prods)] == IF i = 0 THEN 0 ELSE sum[i - 1] + prods[i]
       IN Ok(sum[Len(prods)])

Trace(M) ==
  IF M.rows # M.cols THEN Err
  ELSE IF \E i \in 0..(M.rows - 1) : ~InData(M, i, i) THEN Panic
  ELSE LET sum[i \in 0..M.rows] == IF i = 0 THEN 0 ELSE sum[i - 1] + Index(M, i - 1, i - 1)
       IN Ok(sum[M.rows])

\* The submatrix pushed for column j: for i in 1..n { for k in 0..n { if k != j
\* { push(self[(i, k)]) } } }; its p-th entry (p from 0) comes from row
\* p / (n - 1) + 1 and from the (p % (n - 1))-th column other than j.
Submatrix(M, n, j) ==
  Mat(n - 1, n - 1,
      [p \in 1..((n - 1) * (n - 1)) |->
         LET i == ((p - 1) \div (n - 1)) + 1
             q == (p - 1) % (n - 1)
             k == IF q < j THEN q ELSE q + 1
         IN Index(M, i, k)])

\* determinant of a square matrix all of whose entries can be read.
RECURSIVE DetValue(_)
RECURSIVE DetLoop(_, _, _, _)
DetLoop(M, n, j, det) ==
  IF j >= n THEN det
  ELSE LET subdet == DetValue(Submatrix(M, n, j))
       IN DetLoop(M, n, j + 1,
                  IF j % 2 = 0 THEN det + Index(M, 0, j) * subdet
                  ELSE det - Index(M, 0, j) * subdet)

DetValue(M) ==
  LET n == M.rows
  IN IF n = 1 THEN Index(M, 0, 0)
     ELSE IF n = 2 THEN Index(M, 0, 0) * Index(M, 1, 1) - Index(M, 0, 1) * Index(M, 1, 0)
     ELSE DetLoop(M, n, 0, 0)

\* Every entry of a square matrix with n >= 1 is read (n = 1: (0,0); n = 2: all
\* four; n >= 3: rows 1..n-1 while the submatrices are built, then row 0), so
\* the call panics exactly when one of them lies beyond data.
Determinant(M) ==
  IF M.rows # M.cols THEN Err
  ELSE IF \E i \in 0..(M.rows - 1), k \in 0..(M.rows - 1) : ~InData(M, i, k) THEN Panic
  ELSE Ok(DetValue(M))

\* Client code of the round trip: from_rows((0..M.rows).map(|i| M.row(i).unwrap()))
RowsOf(M) == [i \in 1..M.rows |-> Row(M, i - 1)]

FromRowsOfRows(M) ==
  LET rs == RowsOf(M)
  IN IF \E i \in 1..M.rows : rs[i].tag = "panic" THEN Panic
     ELSE FromRows([i \in 1..M.rows |-> rs[i].val])

\* ---------------------------------------------------------------- Vector
\* A Vector is its data, a sequence.  Its elements are f64 values (the default
\* T of Vector<T = f64>, the type of the division test), written as exact
\* fractions <<n, d>> in lowest terms with d > 0; <<1, 0>> and <<-1, 0>> are
\* +inf and -inf, <<0, 0>> is NaN.  f64 arithmetic never traps: a division by
\* zero yields an infinity or NaN.  Rounding and the sign of zero are left out.
Abs(x) == IF x < 0 THEN -x ELSE x
Sign(x) == IF x > 0 THEN 1 ELSE IF x < 0 THEN -1 ELSE 0

RECURSIVE Gcd(_, _)
Gcd(x, y) == IF y = 0 THEN x ELSE Gcd(y, x % y)

Frac(n, d) ==
  IF d = 0 THEN <<Sign(n), 0>>
  ELSE LET g == Gcd(Abs(n), d) IN <<n \div g, d \div g>>

FAdd(x, y) ==
  IF x[2] = 0 /\ y[2] = 0 THEN (IF x[1] = y[1] THEN x ELSE <<0, 0>>)
  ELSE IF x[2] = 0 THEN x
  ELSE IF y[2] = 0 THEN y
  ELSE Frac(x[1] * y[2] + y[1] * x[2], x[2] * y[2])

FNeg(x) == <<-x[1], x[2]>>

FSub(x, y) == FAdd(x, FNeg(y))

FMul(x, y) == Frac(x[1] * y[1], x[2] * y[2])

FRecip(y) ==
  IF y[1] = 0 THEN (IF y[2] = 0 THEN <<0, 0>> ELSE <<1, 0>>)
  ELSE IF y[2] = 0 THEN <<0, 1>>
  ELSE <<Sign(y[1]) * y[2], Abs(y[1])>>

FDiv(x, y) == FMul(x, FRecip(y))

\* The element operators of the Vector impls, and two more closures a client
\* may pass to zip_map.
Closures == {"add", "sub", "mul", "div", "left", "right"}
Operators == {"add", "sub", "mul", "div"}

Apply(f, x, y) ==
  CASE f = "add" -> FAdd(x, y)
    [] f = "sub" -> FSub(x, y)
    [] f = "mul" -> FMul(x, y)
    [] f = "div" -> FDiv(x, y)
    [] f = "left" -> x
    [] f = "right" -> y

VectorNew == <<>>

FromElem(elem, len) == [i \in 1..len |-> elem]

\* Vector::set: the outcome, and the data after the call.
VectorSetOut(v, index, value) == IF index >= Len(v) THEN Err ELSE Ok(<<>>)

VectorSetData(v, index, value) ==
  IF index >= Len(v) THEN v ELSE [v EXCEPT ![index + 1] = value]

\* A zip_map that keeps the unmatched elements of the longer left operand.
RECURSIVE ZipMapKeepLeft(_, _, _)
ZipMapKeepLeft(x, y, f) ==
  IF x = <<>> THEN <<>>
  ELSE IF y = <<>> THEN x
  ELSE <<Apply(f, Head(x), Head(y))>> \o ZipMapKeepLeft(Tail(x), Tail(y), f)

\* self.data.iter().zip(other.data.iter()).map(|(a, b)| f(a, b)).collect()
RECURSIVE ZipMap(_, _, _)
ZipMap(x, y, f) ==
  IF x = <<>> \/ y = <<>> THEN <<>>
  ELSE <<Apply(f, Head(x), Head(y))>> \o ZipMap(Tail(x), Tail(y), f)

\* impl Add / Sub / Mul / Div for Vector: the same iter().zip().map().collect()
VectorAdd(x, y) == ZipMap(x, y, "add")
VectorSub(x, y) == ZipMap(x, y, "sub")
VectorMul(x, y) == ZipMap(x, y, "mul")
VectorDiv(x, y) == ZipMap(x, y, "div")

Binary(op, x, y) ==
  CASE op = "add" -> VectorAdd(x, y)
    [] op = "sub" -> VectorSub(x, y)
    [] op = "mul" -> VectorMul(x, y)
    [] op = "div" -> VectorDiv(x, y)

\* A compound assignment that truncates self to the zipped length.
RECURSIVE ZipAssignTruncating(_, _, _)
ZipAssignTruncating(x, y, op) ==
  IF x = <<>> \/ y = <<>> THEN <<>>
  ELSE <<Apply(op, Head(x), Head(y))>> \o ZipAssignTruncating(Tail(x), Tail(y), op)

\* for (a, b) in self.data.iter_mut().zip(rhs.data.iter()) { *a op= *b }
\* the elements of self that zip does not reach are not visited.
RECURSIVE ZipAssign(_, _, _)
ZipAssign(x, y, op) ==
  IF x = <<>> THEN <<>>
  ELSE IF y = <<>> THEN x
  ELSE <<Apply(op, Head(x), Head(y))>> \o ZipAssign(Tail(x), Tail(y), op)

AddAssign(x, y) == ZipAssign(x, y, "add")
SubAssign(x, y) == ZipAssign(x, y, "sub")
MulAssign(x, y) == ZipAssign(x, y, "mul")
DivAssign(x, y) == ZipAssign(x, y, "div")

Compound(op, x, y) ==
  CASE op = "add" -> AddAssign(x, y)
    [] op = "sub" -> SubAssign(x, y)
    [] op = "mul" -> MulAssign(x, y)
    [] op = "div" -> DivAssign(x, y)

\* ---------------------------------------------------------------- inputs
SeqsUpTo(S, n) == UNION {[1..k -> S] : k \in 0..n}

\* The f64 inputs, and the values a vector may hold for a compound assignment
\* to be applied to it again (keeps the runs finite).
FVal == {<<v, 1>> : v \in Val}
Bounded(v) == \A i \in 1..Len(v) : Abs(v[i][1]) <= MaxVal /\ v[i][2] <= MaxVal

\* Matrices a client passes as the right-hand operand: built by the dimension
\* constructors, or a clone of its own matrix.
Operands(D, M) ==
  {New(r, c) : r \in 0..D, c \in 0..D} \cup {Zeroes(r, c) : r \in 0..D, c \in 0..D}
    \cup {Ones(r, c) : r \in 0..D, c \in 0..D} \cup {Identity(k) : k \in 0..D}
    \cup {M}

NoCall == [op |-> "none", arg |-> <<>>, out |-> None]
Call(op, arg, out) == [op |-> op, arg |-> arg, out |-> out]

\* The two types share no state: a run works on the matrix or on the vectors,
\* and the registers of the other type stay as constructed empty.
MatIdle == m = New(0, 0) /\ last = NoCall
VecIdle == a = <<>> /\ b = <<>> /\ vlast = NoCall

\* last holds the call just made until the client is done with its result;
\* the next call is made from a state with no pending record.
Ready == last.op \in {"none", "idle"}

\* Constructors are called first, the other calls once no record is pending.
CanConstruct == VecIdle /\ last.op = "none"
CanCall == VecIdle /\ Ready

\* A constructor call: the client keeps the matrix it returns.
Construct(op, arg, out) ==
  /\ m' = IF IsOk(out) THEN out.val ELSE m
  /\ last' = Call(op, arg, out)
  /\ UNCHANGED <<a, b, vlast>>

\* A call that borrows (or clones) the matrix and returns a value.
Query(op, arg, out) ==
  /\ last' = Call(op, arg, out)
  /\ UNCHANGED <<m, a, b, vlast>>

CallNew(D) ==
  /\ CanConstruct
  /\ \E r \in 0..D, c \in 0..D : Construct("new", <<r, c>>, Ok(New(r, c)))

CallZeroes(D) ==
  /\ CanConstruct
  /\ \E r \in 0..D, c \in 0..D : Construct("zeroes", <<r, c>>, Ok(Zeroes(r, c)))

CallOnes(D) ==
  /\ CanConstruct
  /\ \E r \in 0..D, c \in 0..D : Construct("ones", <<r, c>>, Ok(Ones(r, c)))

CallIdentity(D) ==
  /\ CanConstruct
  /\ \E size \in 0..D : Construct("identity", <<size>>, Ok(Identity(size)))

CallFromVec(D) ==
  /\ CanConstruct
  /\ \E r \in 0..D, c \in 0..D :
      \E k \in {r * c - 1, r * c, r * c + 1} \cap Nat :
        \E d \in [1..k -> Val] : Construct("from_vec", <<r, c, d>>, FromVec(r, c, d))

CallFromRows(D) ==
  /\ CanConstruct
  /\ \E rs \in SeqsUpTo(SeqsUpTo(Val, D), D) : Construct("from_rows", rs, FromRows(rs))

CallFromColumns(D) ==
  /\ CanConstruct
  /\ \E cs \in SeqsUpTo(SeqsUpTo(Val, D), D) : Construct("from_columns", cs, FromColumns(cs))

CallSet(D) ==
  /\ CanCall
  /\ \E row \in 0..D, col \in 0..D, v \in Val :
    /\ m' = SetMat(m, row, col, v)
    /\ last' = Call("set", <<row, col>>, SetOut(m, row, col, v))
    /\ UNCHANGED <<a, b, vlast>>

CallGet(D) ==
  /\ CanCall
  /\ \E row \in 0..D, col \in 0..D : Query("get", <<row, col>>, Get(m, row, col))

CallRow(D) ==
  /\ CanCall
  /\ \E index \in 0..D : Query("row", index, Row(m, index))

CallColumn(D) ==
  /\ CanCall
  /\ \E index \in 0..D : Query("column", index, Column(m, index))

CallTranspose ==
  /\ CanCall
  /\ Query("transpose", <<>>, Transpose(m))

CallReshape(D) ==
  /\ CanCall
  /\ \E new_rows \in 0..D, new_cols \in 0..D :
      Query("reshape", <<new_rows, new_cols>>, Reshape(m, new_rows, new_cols))

CallAdd(D) ==
  /\ CanCall
  /\ \E rhs \in Operands(D, m) : Query("add", rhs, Add(m, rhs))

CallSub(D) ==
  /\ CanCall
  /\ \E rhs \in Operands(D, m) : Query("sub", rhs, Sub(m, rhs))

CallMul(D) ==
  /\ CanCall
  /\ \E rhs \in Operands(D, m) : Query("mul", rhs, Mul(m, rhs))

CallHadamard(D) ==
  /\ CanCall
  /\ \E rhs \in Operands(D, m) : Query("hadamard_product", rhs, HadamardProduct(m, rhs))

CallDot(D) ==
  /\ CanCall
  /\ \E rhs \in Operands(D, m) : Query("dot", rhs, Dot(m, rhs))

CallScalarMultiply ==
  /\ CanCall
  /\ \E scalar \in Val : Query("scalar_multiply", scalar, Ok(ScalarMultiply(m, scalar)))

CallTrace ==
  /\ CanCall
  /\ Query("trace", <<>>, Trace(m))

CallDeterminant ==
  /\ CanCall
  /\ Query("determinant", <<>>, Determinant(m))

CallFromRowsOfRows ==
  /\ CanCall
  /\ Query("from_rows_of_rows", <<>>, FromRowsOfRows(m))

\* The calls that return a Matrix.
MatrixOps ==
  {"new", "zeroes", "ones", "identity", "from_vec", "from_rows", "from_columns",
   "transpose", "reshape", "add", "sub", "mul", "scalar_multiply",
   "hadamard_product", "from_rows_of_rows"}

\* The client rebinds its matrix to the matrix the last call returned
\* (let m = result); kept inside the element inputs so the runs stay finite.
Keep ==
  /\ VecIdle
  /\ last.op \in MatrixOps
  /\ IsOk(last.out)
  /\ \A i \in 1..Len(last.out.val.data) : last.out.val.data[i] \in Val
  /\ m' = last.out.val
  /\ last' = Call("idle", <<>>, None)
  /\ UNCHANGED <<a, b, vlast>>

\* The client drops the result of the last call.
Forget ==
  /\ VecIdle
  /\ ~Ready
  /\ last' = Call("idle", <<>>, None)
  /\ UNCHANGED <<m, a, b, vlast>>

Init ==
  /\ m = New(0, 0)
  /\ last = NoCall
  /\ a = <<>>
  /\ b = <<>>
  /\ vlast = NoCall

MatrixNext ==
  \/ CallNew(MaxDim)
  \/ CallZeroes(MaxDim)
  \/ CallOnes(MaxDim)
  \/ CallIdentity(MaxDim)
  \/ CallFromVec(MaxDim)
  \/ CallFromRows(MaxDim)
  \/ CallFromColumns(MaxDim)
  \/ CallSet(MaxDim)
  \/ CallGet(MaxDim)
  \/ CallRow(MaxDim)
  \/ CallColumn(MaxDim)
  \/ CallTranspose
  \/ CallReshape(MaxDim)
  \/ CallAdd(MaxDim)
  \/ CallSub(MaxDim)
  \/ CallMul(MaxDim)
  \/ CallHadamard(MaxDim)
  \/ CallDot(MaxDim)
  \/ CallScalarMultiply
  \/ CallTrace
  \/ CallDeterminant
  \/ CallFromRowsOfRows
  \/ Keep
  \/ Forget

SpecMatrix == Init /\ [][MatrixNext]_vars

\* ---------------------------------------------------------------- Vector calls
VReady == vlast.op \in {"none", "idle"}

\* Vector::new() / Vector::with_capacity(n)
CallVectorNew ==
  /\ MatIdle
  /\ VReady
  /\ a' = VectorNew
  /\ vlast' = Call("idle", <<>>, None)
  /\ UNCHANGED <<m, last, b>>

CallFromElem ==
  /\ MatIdle
  /\ VReady
  /\ \E elem \in FVal, len \in 0..MaxLen :
    /\ a' = FromElem(elem, len)
    /\ vlast' = Call("idle", <<>>, None)
    /\ UNCHANGED <<m, last, b>>

\* Vector { data: vec![...] } for the left and for the right operand
LiteralA ==
  /\ MatIdle
  /\ VReady
  /\ \E d \in SeqsUpTo(FVal, MaxLen) :
    /\ a' = d
    /\ vlast' = Call("idle", <<>>, None)
    /\ UNCHANGED <<m, last, b>>

LiteralB ==
  /\ MatIdle
  /\ VReady
  /\ \E d \in SeqsUpTo(FVal, MaxLen) :
    /\ b' = d
    /\ vlast' = Call("idle", <<>>, None)
    /\ UNCHANGED <<m, last, a>>

CallVectorSet ==
  /\ MatIdle
  /\ VReady
  /\ \E index \in 0..(MaxLen + 1), value \in FVal :
    /\ a' = VectorSetData(a, index, value)
    /\ vlast' = Call("set", index, VectorSetOut(a, index, value))
    /\ UNCHANGED <<m, last, b>>

CallZipMap ==
  /\ MatIdle
  /\ VReady
  /\ \E f \in Closures :
    /\ vlast' = Call("zip_map", f, Ok(ZipMap(a, b, f)))
    /\ UNCHANGED <<m, last, a, b>>

\* a.clone() op b.clone()
CallBinary ==
  /\ MatIdle
  /\ VReady
  /\ \E op \in Operators :
    /\ vlast' = Call("binary", op, Ok(Binary(op, a, b)))
    /\ UNCHANGED <<m, last, a, b>>

\* a op= b.clone(); the record keeps a as it was before the call
CallCompound ==
  /\ MatIdle
  /\ VReady
  /\ \E op \in Operators :
    /\ Bounded(Compound(op, a, b))
    /\ a' = Compound(op, a, b)
    /\ vlast' = Call("compound", <<op, a>>, Ok(<<>>))
    /\ UNCHANGED <<m, last, b>>

VForget ==
  /\ MatIdle
  /\ ~VReady
  /\ vlast' = Call("idle", <<>>, None)
  /\ UNCHANGED <<m, last, a, b>>

VectorNext ==
  \/ CallVectorNew
  \/ CallFromElem
  \/ LiteralA
  \/ LiteralB
  \/ CallVectorSet
  \/ CallZipMap
  \/ CallBinary
  \/ CallCompound
  \/ VForget

\* The combined runs: matrices up to SmallDim x SmallDim, built, written,
\* transposed and rebuilt from their rows; or vectors.
Next ==
  \/ CallNew(SmallDim)
  \/ CallZeroes(SmallDim)
  \/ CallOnes(SmallDim)
  \/ CallIdentity(SmallDim)
  \/ CallFromVec(SmallDim)
  \/ CallFromRows(SmallDim)
  \/ CallFromColumns(SmallDim)
  \/ CallSet(SmallDim)
  \/ CallTranspose
  \/ CallFromRowsOfRows
  \/ Keep
  \/ Forget
  \/ VectorNext

Spec == Init /\ [][Next]_vars

\* ---------------------------------------------------------------- claims
\* Entry (r, c) of a row-major matrix, rows and columns counted from 0.
Entry(M, r, c) == M.data[r * M.cols + c + 1]

WellFormed(M) == Len(M.data) = M.rows * M.cols

\* C1: every Matrix value has data.len() == rows * cols: the matrix the client
\* holds, and every matrix a constructor or a derived operation returns.
C1_LengthInvariant ==
  /\ WellFormed(m)
  /\ (last.op \in MatrixOps /\ IsOk(last.out)) => WellFormed(last.out.val)

\* C2: a set call whose index lies outside the structure returns the
\* out-of-bounds error and leaves the structure as it was, for Matrix::set
\* (row >= rows or col >= cols) and for Vector::set (index >= len()).
C2_FailedSetUnmodified ==
  [][/\ (last'.op = "set" /\ ~Ready' /\ Ready
           /\ (last'.arg[1] >= m.rows \/ last'.arg[2] >= m.cols))
          => (last'.out = Err /\ m' = m)
     /\ (vlast'.op = "set" /\ ~VReady' /\ VReady /\ vlast'.arg >= Len(a))
          => (vlast'.out = Err /\ a' = a /\ b' = b)]_vars

C2_Witness ==
  /\ last.op = "set"
  /\ last.out = Err
  /\ m.rows = 2 /\ m.cols = 2 /\ m.data = <<0, 1, 1, 1>>

\* C3: add and sub return the dimension-mismatch error exactly when the
\* operands differ in rows or in cols and never panic; with equal rows and
\* cols the result has those rows and cols, no operand entry is dropped, and
\* entry i is a.data[i] + b.data[i] (a.data[i] - b.data[i] for sub).
C3_AddSub ==
  last.op \in {"add", "sub"} =>
    LET rhs == last.arg
        same == m.rows = rhs.rows /\ m.cols = rhs.cols
        res == last.out.val
    IN /\ last.out.tag # "panic"
       /\ (last.out.tag = "err") <=> ~same
       /\ same =>
            /\ IsOk(last.out)
            /\ res.rows = m.rows /\ res.cols = m.cols
            /\ Len(res.data) = Len(m.data) /\ Len(res.data) = Len(rhs.data)
            /\ \A i \in 1..Len(res.data) :
                 res.data[i] = IF last.op = "add" THEN m.data[i] + rhs.data[i]
                               ELSE m.data[i] - rhs.data[i]

\* The sum over k < n of M(i, k) * R(k, j).
RECURSIVE SumProducts(_, _, _, _, _)
SumProducts(M, R, i, j, n) ==
  IF n = 0 THEN 0
  ELSE SumProducts(M, R, i, j, n - 1) + Entry(M, i, n - 1) * Entry(R, n - 1, j)

\* C4: mul fails exactly when self.cols != rhs.rows; otherwise it returns the
\* self.rows x rhs.cols matrix whose entry (i, j) is the sum over k of
\* self(i, k) * rhs(k, j); and M * identity(M.cols) is M.
C4_Mul ==
  last.op = "mul" =>
    LET rhs == last.arg
        res == last.out.val
    IN /\ (last.out.tag = "err") <=> (m.cols # rhs.rows)
       /\ (m.cols = rhs.rows) =>
            /\ IsOk(last.out)
            /\ res.rows = m.rows /\ res.cols = rhs.cols
            /\ Len(res.data) = m.rows * rhs.cols
            /\ \A i \in 0..(m.rows - 1), j \in 0..(rhs.cols - 1) :
                 Entry(res, i, j) = SumProducts(m, rhs, i, j, m.cols)
            /\ (rhs = Identity(m.cols)) => res = m

\* C5: transpose(M) is the cols x rows matrix whose entry (i, j) is M's entry
\* (j, i), and transposing it again gives M.
C5_Transpose ==
  last.op = "transpose" =>
    LET t == last.out.val
    IN /\ IsOk(last.out)
       /\ t.rows = m.cols /\ t.cols = m.rows
       /\ Len(t.data) = m.rows * m.cols
       /\ \A i \in 0..(t.rows - 1), j \in 0..(t.cols - 1) : Entry(t, i, j) = Entry(m, j, i)
       /\ Transpose(t) = Ok(m)

\* C6 as stated: for any matrix M, from_rows of M.row(0), ..., M.row(rows - 1)
\* succeeds and gives M back.
C6_RoundTripAnyMatrix ==
  last.op = "from_rows_of_rows" => last.out = Ok(m)

\* C6 as amended: for any matrix M with rows >= 1 that holds its rows * cols
\* elements, from_rows of M.row(0), ..., M.row(rows - 1) succeeds and gives M
\* back (same rows, cols and data); for a matrix with rows = 0 the collected
\* sequence is empty and from_rows returns its error.
C6_RoundTrip ==
  last.op = "from_rows_of_rows" =>
    /\ (m.rows >= 1 /\ WellFormed(m)) =>
         /\ IsOk(last.out)
         /\ last.out.val.rows = m.rows
         /\ last.out.val.cols = m.cols
         /\ last.out.val.data = m.data
    /\ (m.rows = 0) => last.out = Err

C6_Witness ==
  /\ last.op = "from_rows_of_rows"
  /\ m.rows = 2 /\ m.cols = 1 /\ m.data = <<0, 1>>
  /\ IsOk(last.out)

\* The Laplace expansion along the first row of the n x n array f.
RECURSIVE Laplace(_, _)
RECURSIVE LaplaceSum(_, _, _)
LaplaceSum(n, f, j) ==
  IF j = 0 THEN 0
  ELSE LET c == j - 1
           minor == [i \in 0..(n - 2), k \in 0..(n - 2) |->
                       f[i + 1, IF k < c THEN k ELSE k + 1]]
           sign == IF c % 2 = 0 THEN 1 ELSE -1
       IN LaplaceSum(n, f, j - 1) + sign * f[0, c] * Laplace(n - 1, minor)

Laplace(n, f) ==
  IF n = 1 THEN f[0, 0]
  ELSE IF n = 2 THEN f[0, 0] * f[1, 1] - f[0, 1] * f[1, 0]
  ELSE LaplaceSum(n, f, n)

\* The permutation sum: over the permutations s of 0..n-1, the sign of s times
\* the product of the entries f[i, s[i]].
PermSign(n, s) ==
  LET inv == {p \in (0..(n - 1)) \X (0..(n - 1)) : p[1] < p[2] /\ s[p[1]] > s[p[2]]}
  IN IF Cardinality(inv) % 2 = 0 THEN 1 ELSE -1

RECURSIVE PermProduct(_, _, _)
PermProduct(f, s, i) == IF i = 0 THEN 1 ELSE PermProduct(f, s, i - 1) * f[i - 1, s[i - 1]]

RECURSIVE PermSum(_, _, _)
PermSum(n, f, S) ==
  IF S = {} THEN 0
  ELSE LET s == CHOOSE x \in S : TRUE
       IN PermSign(n, s) * PermProduct(f, s, n) + PermSum(n, f, S \ {s})

Leibniz(n, f) == PermSum(n, f, Permutations(0..(n - 1)))

\* C7: determinant() returns its error exactly when rows != cols; for a
\* square matrix with n >= 1 it returns the Laplace expansion along the first
\* row, which is the permutation-sum determinant.
C7_Determinant ==
  last.op = "determinant" =>
    /\ (last.out.tag = "err") <=> (m.rows # m.cols)
    /\ (m.rows = m.cols /\ m.rows >= 1) =>
         /\ IsOk(last.out)
         /\ LET f == [i \in 0..(m.rows - 1), k \in 0..(m.rows - 1) |-> Entry(m, i, k)]
            IN /\ last.out.val = Laplace(m.rows, f)
               /\ last.out.val = Leibniz(m.rows, f)

\* C8: zip_map and the operators + - * / raise no error for vectors of any
\* lengths and return a vector of length min(len(a), len(b)) whose element i
\* is f(a[i], b[i]).
C8_ZipToShorter ==
  vlast.op \in {"zip_map", "binary"} =>
    /\ IsOk(vlast.out)
    /\ Len(vlast.out.val) = Min(Len(a), Len(b))
    /\ \A i \in 1..Min(Len(a), Len(b)) : vlast.out.val[i] = Apply(vlast.arg, a[i], b[i])
    /\ (Len(a) = Len(b)) => Len(vlast.out.val) = Len(a)

C8_Witness ==
  /\ vlast.op = "binary"
  /\ vlast.arg = "div"
  /\ Len(a) = 2 /\ Len(b) = 1
  /\ vlast.out.val = << <<1, 0>> >>

\* C9: from_columns(cs) fails exactly when from_rows(cs) fails (cs empty, or a
\* vector whose length differs from the first one's); otherwise it is
\* transpose(from_rows(cs)): the len(cs[0]) x len(cs) matrix whose entry
\* (r, c) is cs[c][r].
C9_ColumnsMirrorRows ==
  last.op = "from_columns" =>
    LET cs == last.arg
        byRows == FromRows(cs)
        res == last.out.val
    IN /\ last.out.tag \in {"ok", "err"}
       /\ (last.out.tag = "err") <=> (byRows.tag = "err")
       /\ (last.out.tag = "err") <=>
            (cs = <<>> \/ \E i \in 1..Len(cs) : Len(cs[i]) # Len(cs[1]))
       /\ IsOk(last.out) =>
            /\ last.out = Transpose(byRows.val)
            /\ res.rows = Len(cs[1]) /\ res.cols = Len(cs)
            /\ Len(res.data) = Len(cs[1]) * Len(cs)
            /\ \A r \in 0..(res.rows - 1), c \in 0..(res.cols - 1) :
                 Entry(res, r, c) = cs[c + 1][r + 1]

C9_Witness ==
  /\ last.op = "from_columns"
  /\ last.arg = << <<0, 1>>, <<1, 1>> >>
  /\ IsOk(last.out)
  /\ last.out.val.data = <<0, 1, 1, 1>>

\* C10: a op= b keeps len(a), replaces element i by a[i] op b[i] for every
\* i < min(len(a), len(b)) and leaves the elements at i >= len(b) as they
\* were; so with len(b) < len(a) it differs from the result of a op b.
C10_CompoundKeepsTail ==
  vlast.op = "compound" =>
    LET op == vlast.arg[1]
        before == vlast.arg[2]
    IN /\ Len(a) = Len(before)
       /\ \A i \in 1..Len(before) :
            a[i] = IF i <= Len(b) THEN Apply(op, before[i], b[i]) ELSE before[i]
       /\ (Len(b) < Len(before)) => a # Binary(op, before, b)

C10_Witness ==
  /\ vlast.op = "compound"
  /\ vlast.arg = <<"sub", << <<1, 1>>, <<1, 1>> >> >>
  /\ b = << <<1, 1>> >>
  /\ a = << <<0, 1>>, <<1, 1>> >>

====
